---- MODULE Spec2Model ----
(***************************************************************************)
(* RepliMatch: the matching engine (utils/ai_matcher.py), the match store  *)
(* (utils/database.py) and the POST /find-matches handler (app.py).        *)
(*                                                                         *)
(* Scores are Python floats in the source.  They are modelled as exact     *)
(* rationals <<numerator, denominator>> in lowest terms, denominator > 0.  *)
(***************************************************************************)
EXTENDS Integers, Sequences, FiniteSets, TLC

VARIABLES
    \* SpecScore: one call of each scoring function
    user1, user2,       \* the two profile dicts passed to the scorer
    called,             \* which scoring functions have returned
    sim,                \* value returned by calculate_jaccard_similarity
    total_score,        \* value returned by calculate_match_score_fallback
    \* SpecRank: one call of AIMatchmaker.find_matches
    user_profile,       \* the subject
    all_users,          \* the candidate pool, a list of profile dicts
    top_n,              \* the top_n argument
    model,              \* self.model: TRUE when a Gemini model is configured
    response,           \* what the external AI collaborator does on this call
    returned,           \* FALSE until find_matches has returned
    result,             \* the list find_matches returned
    \* Spec: the match store and the requests in flight
    profiles,           \* users LEFT JOIN profiles, by user id
    matches_tbl,        \* committed rows of the matches table, in rowid order
    lock,               \* request whose connection holds SQLite's write lock, or NoReq
    req,                \* per request slot: position in the handler and locals
    latest,             \* per user: the result of the last request that succeeded
    \* SpecMatches: the store and GET /matches
    user_matches        \* what the last GET /matches got from get_user_matches

vars == <<user1, user2, called, sim, total_score,
          user_profile, all_users, top_n, model, response, returned, result,
          profiles, matches_tbl, lock, req, latest, user_matches>>

scoreVars == <<user1, user2, called, sim, total_score>>
rankVars == <<user_profile, all_users, top_n, response, returned, result>>
matcherVars == <<model>>
storeVars == <<profiles, matches_tbl, lock, req, latest>>
readVars == <<user_matches>>

-----------------------------------------------------------------------------
(* Bounds of the model *)

\* longest skills / interests / tech_stack list drawn as an input
MaxLen == 2
\* largest candidate pool passed to find_matches
MaxPool == 3
\* largest top_n passed to find_matches
MaxTopN == 3
\* longest rankings array the external AI collaborator returns
MaxRankings == 2

Tags == {"python", "flask"}

-----------------------------------------------------------------------------
(* Python values *)

\* Python's None, e.g. a NULL column of the LEFT JOIN when a user has no
\* profile row.  A one-element tuple whose element is no tag.
None == <<"None">>

\* a mutant of Truthy: only the empty list is falsy
TruthyUnlessEmptyList(x) == x # <<>>

\* bool(x) of a list or None: "not set1" in the source is ~Truthy(set1)
Truthy(x) == x # None /\ x # <<>>

\* dict.get(key, default)
Get(d, key, default) == IF key \in DOMAIN d THEN d[key] ELSE default

\* set(list)
ToSet(list) == {list[i] : i \in DOMAIN list}

Min(a, b) == IF a <= b THEN a ELSE b

\* list[:n] for n >= 0
Take(list, n) == SubSeq(list, 1, Min(n, Len(list)))

-----------------------------------------------------------------------------
(* Exact arithmetic standing for the source's float arithmetic *)

Abs(n) == IF n < 0 THEN -n ELSE n

RECURSIVE Gcd(_, _)
Gcd(a, b) == IF b = 0 THEN a ELSE Gcd(b, a % b)

\* the rational n/d (d > 0) in lowest terms
Rat(n, d) == LET g == Gcd(Abs(n), d) IN <<n \div g, d \div g>>

RAdd(x, y) == Rat(x[1] * y[2] + y[1] * x[2], x[2] * y[2])
RMul(x, y) == Rat(x[1] * y[1], x[2] * y[2])
RLe(x, y) == x[1] * y[2] <= y[1] * x[2]
RLt(x, y) == x[1] * y[2] < y[1] * x[2]

Zero == Rat(0, 1)
One == Rat(1, 1)

-----------------------------------------------------------------------------
(* utils/ai_matcher.py: the similarity scorer *)

\* one of the mutants of calculate_jaccard_similarity: divides by len(set1)
\* instead of the size of the union
JaccardOverFirst(set1, set2) ==
    IF ~Truthy(set1) \/ ~Truthy(set2) THEN Zero
    ELSE Rat(Cardinality(ToSet(set1) \cap ToSet(set2)), Cardinality(ToSet(set1)))

calculate_jaccard_similarity(set1, set2) ==
    IF ~Truthy(set1) \/ ~Truthy(set2) THEN Zero
    ELSE LET s1 == ToSet(set1)
             s2 == ToSet(set2)
             intersection == Cardinality(s1 \cap s2)
             union == Cardinality(s1 \cup s2)
         IN  IF union > 0 THEN Rat(intersection, union) ELSE Zero

\* a mutant of InterestsWeight
InterestsWeightHalf == Rat(5, 10)

\* the weights of line 45, in tenths
SkillsWeight == Rat(4, 10)
InterestsWeight == Rat(4, 10)
TechWeight == Rat(2, 10)

skills_score(u1, u2) ==
    calculate_jaccard_similarity(Get(u1, "skills", <<>>), Get(u2, "skills", <<>>))
interests_score(u1, u2) ==
    calculate_jaccard_similarity(Get(u1, "interests", <<>>), Get(u2, "interests", <<>>))
tech_score(u1, u2) ==
    calculate_jaccard_similarity(Get(u1, "tech_stack", <<>>), Get(u2, "tech_stack", <<>>))

calculate_match_score_fallback(u1, u2) ==
    RAdd(RAdd(RMul(SkillsWeight, skills_score(u1, u2)),
              RMul(InterestsWeight, interests_score(u1, u2))),
         RMul(TechWeight, tech_score(u1, u2)))

-----------------------------------------------------------------------------
(* utils/ai_matcher.py: the match ranker *)

\* ', '.join(x) raises TypeError when x is None
JoinRaises(x) == x = None

\* lines 52-68: building the prompt joins the skills and the interests of the
\* subject and of every candidate
PromptRaises(subject, pool) ==
    \/ JoinRaises(Get(subject, "skills", <<>>))
    \/ JoinRaises(Get(subject, "interests", <<>>))
    \/ \E i \in DOMAIN pool :
          \/ JoinRaises(Get(pool[i], "skills", <<>>))
          \/ JoinRaises(Get(pool[i], "interests", <<>>))

\* a mutant of GeminiMatch: the name is read under a key the candidate does
\* not have, so the default is taken
GeminiMatchUnknownName(candidate, score, reason) ==
    [user_id |-> candidate.id,
     username |-> "Unknown",
     score |-> Rat(score, 100),
     skills |-> candidate.skills,
     interests |-> candidate.interests,
     tech_stack |-> candidate.tech_stack,
     bio |-> candidate.bio,
     match_reason |-> reason]

\* lines 109-119: the dict appended for one accepted ranking entry
\* (profile_photo, which no step reads, is left out of the profile rows)
GeminiMatch(candidate, score, reason) ==
    [user_id |-> candidate.id,
     username |-> candidate.username,
     score |-> Rat(score, 100),
     skills |-> candidate.skills,
     interests |-> candidate.interests,
     tech_stack |-> candidate.tech_stack,
     bio |-> candidate.bio,
     match_reason |-> reason]

\* line 107
InRange(idx, pool) == 0 <= idx /\ idx < Len(pool)

\* lines 104-121: the loop over rankings[:top_n].  A ranking entry is
\* [len, idx, score, reason]: a JSON array of len elements, of which the
\* first three are idx, score, reason; unpacking it into three names raises
\* unless len = 3.  The value is [raised, matches].
RECURSIVE BuildMatches(_, _, _)
BuildMatches(items, pool, matches) ==
    IF items = <<>> THEN [raised |-> FALSE, matches |-> matches]
    ELSE LET rank_item == Head(items) IN
         IF rank_item.len # 3 THEN [raised |-> TRUE, matches |-> <<>>]
         ELSE IF InRange(rank_item.idx, pool)
              THEN BuildMatches(Tail(items), pool,
                       Append(matches, GeminiMatch(pool[rank_item.idx + 1],
                                                   rank_item.score, rank_item.reason)))
              ELSE BuildMatches(Tail(items), pool, matches)

\* lines 48-126.  [raised |-> TRUE] stands for the except branch, which
\* returns None.
find_matches_with_gemini(subject, pool, n, resp) ==
    IF PromptRaises(subject, pool) THEN [raised |-> TRUE, matches |-> <<>>]
    ELSE IF resp.kind # "rankings" THEN [raised |-> TRUE, matches |-> <<>>]
    ELSE BuildMatches(Take(resp.rankings, n), pool, <<>>)

FallbackReason == "Matched based on skill and interest overlap"

\* lines 141-152
FallbackMatch(subject, other_user) ==
    [user_id |-> other_user.id,
     username |-> other_user.username,
     score |-> calculate_match_score_fallback(subject, other_user),
     skills |-> other_user.skills,
     interests |-> other_user.interests,
     tech_stack |-> other_user.tech_stack,
     bio |-> other_user.bio,
     match_reason |-> FallbackReason]

\* a mutant of InsertDesc: x goes before the elements of equal score
InsertDescBeforeTies(sorted, x) ==
    LET k == Cardinality({i \in DOMAIN sorted : RLt(x.score, sorted[i].score)})
    IN  SubSeq(sorted, 1, k) \o <<x>> \o SubSeq(sorted, k + 1, Len(sorted))

\* x put into a list sorted by descending score, after every element whose
\* score is at least x's
InsertDesc(sorted, x) ==
    LET k == Cardinality({i \in DOMAIN sorted : RLe(x.score, sorted[i].score)})
    IN  SubSeq(sorted, 1, k) \o <<x>> \o SubSeq(sorted, k + 1, Len(sorted))

\* line 155: list.sort(key=score, reverse=True), which is stable
RECURSIVE SortByScoreDesc(_)
SortByScoreDesc(list) ==
    IF list = <<>> THEN <<>>
    ELSE InsertDesc(SortByScoreDesc(SubSeq(list, 1, Len(list) - 1)), list[Len(list)])

\* a mutant of FallbackRanking: the slice is one short
FallbackRankingShort(subject, pool, n) ==
    Take(SortByScoreDesc([i \in DOMAIN pool |-> FallbackMatch(subject, pool[i])]),
         IF n > 0 THEN n - 1 ELSE 0)

\* lines 138-157
FallbackRanking(subject, pool, n) ==
    Take(SortByScoreDesc([i \in DOMAIN pool |-> FallbackMatch(subject, pool[i])]), n)

\* lines 131-134: TRUE when find_matches returns what Gemini gave
UsesGemini(subject, pool, n, mdl, resp) ==
    /\ mdl
    /\ LET gemini_matches == find_matches_with_gemini(subject, pool, n, resp)
       IN  ~gemini_matches.raised /\ gemini_matches.matches # <<>>

\* lines 128-157
find_matches(subject, pool, n, mdl, resp) ==
    IF UsesGemini(subject, pool, n, mdl, resp)
    THEN find_matches_with_gemini(subject, pool, n, resp).matches
    ELSE FallbackRanking(subject, pool, n)

-----------------------------------------------------------------------------
(* SpecScore: the scoring functions applied to drawn inputs *)

\* every list over Tags of length at most n
Lists(n) == UNION {[1..k -> Tags] : k \in 0..n}

\* a skills / interests / tech_stack value as get_all_users returns it:
\* a JSON list (duplicates are not removed on the way in) or None
Collections == Lists(MaxLen) \cup {None}

\* one list per subset of Tags
RECURSIVE SetToList(_)
SetToList(S) ==
    IF S = {} THEN <<>>
    ELSE LET x == CHOOSE y \in S : TRUE IN <<x>> \o SetToList(S \ {x})

SetLists == {SetToList(S) : S \in SUBSET Tags} \cup {None}

NoProfile == [skills |-> None, interests |-> None, tech_stack |-> None]

ScoreIdle ==
    /\ user1 = NoProfile /\ user2 = NoProfile
    /\ called = {} /\ sim = Zero /\ total_score = Zero

InitScore ==
    /\ user1 \in [skills : Collections, interests : SetLists, tech_stack : SetLists]
    /\ user2 \in [skills : Collections, interests : SetLists, tech_stack : SetLists]
    /\ called = {}
    /\ sim = Zero
    /\ total_score = Zero

\* matcher.calculate_jaccard_similarity(user1['skills'], user2['skills'])
CallJaccard ==
    /\ "jaccard" \notin called
    /\ sim' = calculate_jaccard_similarity(user1.skills, user2.skills)
    /\ called' = called \cup {"jaccard"}
    /\ UNCHANGED <<user1, user2, total_score>>

\* matcher.calculate_match_score_fallback(user1, user2)
CallScore ==
    /\ "score" \notin called
    /\ total_score' = calculate_match_score_fallback(user1, user2)
    /\ called' = called \cup {"score"}
    /\ UNCHANGED <<user1, user2, sim>>

NextScore ==
    \/ CallJaccard /\ UNCHANGED <<rankVars, matcherVars, storeVars, readVars>>
    \/ CallScore /\ UNCHANGED <<rankVars, matcherVars, storeVars, readVars>>

-----------------------------------------------------------------------------
(* SpecRank: AIMatchmaker.find_matches applied to drawn inputs *)

\* the skills / interests / tech_stack of the profiles drawn as inputs: a
\* full profile, a sparse one (its tech_stack stored as JSON null) and the
\* NULL columns of a user without a profile row
SampleFields ==
    {[skills |-> <<"python", "flask">>, interests |-> <<"python">>,
      tech_stack |-> <<"flask">>],
     [skills |-> <<"python">>, interests |-> <<>>, tech_stack |-> None],
     NoProfile}

Usernames == <<"ada", "bob", "cyd", "dee", "eve", "fay">>

\* one row of users LEFT JOIN profiles as get_user_profile and get_all_users
\* return it (database.py lines 153-203)
ProfileRow(uid, f) ==
    [id |-> uid,
     username |-> Usernames[uid],
     skills |-> f.skills,
     interests |-> f.interests,
     tech_stack |-> f.tech_stack,
     bio |-> IF f = NoProfile THEN None ELSE <<"bio">>]

\* the subject is user 1
Subject(f) == ProfileRow(1, f)

\* the pools of n candidates: users 2 .. n+1, in that order
Pools(n) == {[i \in 1..n |-> ProfileRow(i + 1, g[i])] : g \in [1..n -> SampleFields]}

\* the entries of a rankings array: [idx, score, reason] with the index in
\* range, negative or too large and the score inside or outside 0..100, and
\* an array of two elements
RankItems ==
    {[len |-> 3, idx |-> 0, score |-> 50, reason |-> "r"],
     [len |-> 3, idx |-> 0, score |-> 150, reason |-> "r"],
     [len |-> 3, idx |-> 1, score |-> 90, reason |-> "r"],
     [len |-> 3, idx |-> 7, score |-> 90, reason |-> "r"],
     [len |-> 3, idx |-> -1, score |-> 90, reason |-> "r"],
     [len |-> 2, idx |-> 0, score |-> 50, reason |-> ""]}

NoRankings == <<>>

\* what generate_content and json.loads do on one call: the call raises,
\* the text is not JSON, the JSON is not an array, or it is an array
Responses ==
    {[kind |-> k, rankings |-> NoRankings] : k \in {"raises", "nonjson", "notarray"}}
    \cup {[kind |-> "rankings", rankings |-> r] :
             r \in UNION {[1..k -> RankItems] : k \in 0..MaxRankings}}

NoResponse == [kind |-> "raises", rankings |-> NoRankings]

RankIdle ==
    /\ user_profile = Subject(NoProfile)
    /\ all_users = <<>>
    /\ top_n = 0
    /\ response = NoResponse
    /\ returned = FALSE
    /\ result = <<>>

InitRank ==
    /\ user_profile \in {Subject(f) : f \in SampleFields}
    /\ all_users \in UNION {Pools(n) : n \in 0..MaxPool}
    /\ top_n \in 0..MaxTopN
    /\ model \in BOOLEAN
    /\ response \in IF model THEN Responses ELSE {NoResponse}
    /\ returned = FALSE
    /\ result = <<>>

\* matcher.find_matches(user_profile, all_users, top_n)
CallFindMatches ==
    /\ ~returned
    /\ result' = find_matches(user_profile, all_users, top_n, model, response)
    /\ returned' = TRUE
    /\ UNCHANGED <<user_profile, all_users, top_n, model, response>>

NextRank ==
    CallFindMatches /\ UNCHANGED <<scoreVars, storeVars, readVars>>

-----------------------------------------------------------------------------
(* utils/database.py and app.py: the match store and POST /find-matches *)

\* find_matches' default top_n, used by the handler's call
DefaultTopN == 10

\* the requests that can be in flight at once, each on its own connection
Reqs == {"r1", "r2"}
NoReq == "none"

\* the users of the database and their profiles: a full profile, a sparse
\* one and a third user, with a profile or without a profile row
UsersWithProfiles ==
    <<ProfileRow(1, [skills |-> <<"python", "flask">>, interests |-> <<"python">>,
                     tech_stack |-> <<"flask">>]),
      ProfileRow(2, [skills |-> <<"python">>, interests |-> <<>>, tech_stack |-> None]),
      ProfileRow(3, [skills |-> <<"flask">>, interests |-> <<"python">>,
                     tech_stack |-> <<"flask", "flask">>])>>

UsersOneWithoutProfile == [UsersWithProfiles EXCEPT ![3] = ProfileRow(3, NoProfile)]

Users == DOMAIN profiles

\* the users with a session, whose requests the handler serves
SessionUsers == {1, 2}

\* database.py lines 153-173
get_user_profile(user_id) == profiles[user_id]

\* a mutant of get_all_users: the subject is not excluded
get_all_users_unfiltered(exclude_id) == profiles

\* database.py lines 175-203: "if exclude_id" is false for None and for 0
get_all_users(exclude_id) ==
    LET Other(row) == row.id # exclude_id
    IN  IF exclude_id # 0
        THEN SelectSeq(profiles, Other)
        ELSE profiles

\* what the external AI collaborator answers to the requests of Spec
StoreResponses ==
    {NoResponse,
     [kind |-> "rankings",
      rankings |-> <<[len |-> 3, idx |-> 1, score |-> 90, reason |-> "r"],
                     [len |-> 3, idx |-> 0, score |-> 150, reason |-> "r"]>>]}

\* the row save_matches inserts for one match (lines 215-218); the
\* autoincrement id and created_at are left out
MatchRow(user_id, match) ==
    [user_id |-> user_id, matched_user_id |-> match.user_id, match_score |-> match.score]

\* a mutant of DeleteUserRows: nothing is deleted
DeleteNothing(tbl, user_id) == tbl

\* a mutant of SaveDelete: DELETE FROM matches, without the WHERE
SaveDeleteEveryRow(r) ==
    /\ req[r].pc = "save"
    /\ lock = NoReq
    /\ lock' = r
    /\ req' = [req EXCEPT ![r].pc = "insert", ![r].i = 1,
                          ![r].before = matches_tbl,
                          ![r].tx = <<>>]
    /\ UNCHANGED <<profiles, model, matches_tbl, latest>>

\* line 211: DELETE FROM matches WHERE user_id = ?
DeleteUserRows(tbl, user_id) ==
    LET Keep(row) == row.user_id # user_id IN SelectSeq(tbl, Keep)

\* SELECT ... FROM matches WHERE user_id = ?, in rowid order
UserRows(tbl, user_id) ==
    LET Mine(row) == row.user_id = user_id IN SelectSeq(tbl, Mine)

\* overlapped records that the request in this slot and the request in the
\* other slot are of the same user and were in flight at the same time
IdleReq == [pc |-> "idle", user_id |-> 0, matches |-> <<>>, i |-> 0,
            tx |-> <<>>, before |-> <<>>, overlapped |-> FALSE]

InitStore ==
    /\ profiles \in {UsersWithProfiles, UsersOneWithoutProfile}
    /\ model \in BOOLEAN
    /\ matches_tbl = <<>>
    /\ lock = NoReq
    /\ req = [r \in Reqs |-> IdleReq]
    /\ latest = [u \in 1..Len(UsersWithProfiles) |-> <<>>]

\* app.py lines 175-185: the handler of a request of the session user reads
\* the profile and the pool and ranks; save_matches has not been called yet
BeginRequest(r, user_id, resp) ==
    /\ req[r].pc \in {"idle", "done", "error"}
    /\ LET overlaps == \E q \in Reqs \ {r} :
                            /\ req[q].pc \in {"save", "insert"}
                            /\ req[q].user_id = user_id
       IN  req' = [q \in Reqs |->
                     IF q = r
                     THEN [pc |-> "save", user_id |-> user_id,
                           matches |-> find_matches(get_user_profile(user_id),
                                                    get_all_users(user_id),
                                                    DefaultTopN, model, resp),
                           i |-> 0, tx |-> <<>>, before |-> <<>>,
                           overlapped |-> overlaps]
                     ELSE [req[q] EXCEPT !.overlapped = overlaps]]
    /\ UNCHANGED <<profiles, model, matches_tbl, lock, latest>>

\* a mutant of SaveDelete: the connection is in autocommit mode, the DELETE
\* is applied to the stored table at once
SaveDeleteAutocommit(r) ==
    /\ req[r].pc = "save"
    /\ lock = NoReq
    /\ lock' = r
    /\ matches_tbl' = DeleteUserRows(matches_tbl, req[r].user_id)
    /\ req' = [req EXCEPT ![r].pc = "insert", ![r].i = 1,
                          ![r].tx = DeleteUserRows(matches_tbl, req[r].user_id),
                          ![r].before = matches_tbl]
    /\ UNCHANGED <<profiles, model, latest>>

\* database.py lines 207-211: connect, then the DELETE opens the connection's
\* transaction and takes SQLite's write lock; its effect stays in the
\* transaction (tx).  before is the stored table when the transaction began.
SaveDelete(r) ==
    /\ req[r].pc = "save"
    /\ lock = NoReq
    /\ lock' = r
    /\ req' = [req EXCEPT ![r].pc = "insert", ![r].i = 1,
                          ![r].tx = DeleteUserRows(matches_tbl, req[r].user_id),
                          ![r].before = matches_tbl]
    /\ UNCHANGED <<profiles, model, matches_tbl, latest>>

\* line 211 when another connection holds the write lock: the DELETE waits
\* (SaveDelete once the lock is free) or gives up after the busy timeout and
\* raises "database is locked", which nothing catches
SaveBusy(r) ==
    /\ req[r].pc = "save"
    /\ lock # NoReq
    /\ req' = [req EXCEPT ![r] = [IdleReq EXCEPT !.pc = "error",
                                                  !.user_id = req[r].user_id]]
    /\ UNCHANGED <<profiles, model, matches_tbl, lock, latest>>

\* lines 214-218: one INSERT of the loop, inside the transaction
SaveInsert(r) ==
    /\ req[r].pc = "insert"
    /\ req[r].i <= Len(req[r].matches)
    /\ req' = [req EXCEPT ![r].i = @ + 1,
                          ![r].tx = Append(@, MatchRow(req[r].user_id,
                                                       req[r].matches[req[r].i]))]
    /\ UNCHANGED <<profiles, model, matches_tbl, lock, latest>>

\* a mutant of SaveCommit: only the INSERTs of the transaction reach the
\* stored table, its DELETE does not
SaveCommitInsertsOnly(r) ==
    /\ req[r].pc = "insert"
    /\ req[r].i > Len(req[r].matches)
    /\ matches_tbl' = matches_tbl \o
                         [k \in DOMAIN req[r].matches |->
                             MatchRow(req[r].user_id, req[r].matches[k])]
    /\ lock' = NoReq
    /\ latest' = [latest EXCEPT ![req[r].user_id] = req[r].matches]
    /\ req' = [req EXCEPT ![r].pc = "done", ![r].i = 0, ![r].tx = <<>>,
                          ![r].before = <<>>]
    /\ UNCHANGED <<profiles, model>>

\* lines 220-221 and app.py line 190: commit, close, respond with success
SaveCommit(r) ==
    /\ req[r].pc = "insert"
    /\ req[r].i > Len(req[r].matches)
    /\ matches_tbl' = req[r].tx
    /\ lock' = NoReq
    /\ latest' = [latest EXCEPT ![req[r].user_id] = req[r].matches]
    /\ req' = [req EXCEPT ![r].pc = "done", ![r].i = 0, ![r].tx = <<>>,
                          ![r].before = <<>>]
    /\ UNCHANGED <<profiles, model>>

\* a statement of save_matches raises (the store is unavailable): before the
\* DELETE, between the DELETE and an INSERT, between two INSERTs or at the
\* commit.  Nothing catches it in save_matches or in the handler: the
\* request fails, the connection is dropped uncommitted and SQLite rolls its
\* transaction back.
SaveFail(r) ==
    /\ req[r].pc \in {"save", "insert"}
    /\ lock' = IF lock = r THEN NoReq ELSE lock
    /\ req' = [req EXCEPT ![r] = [IdleReq EXCEPT !.pc = "error",
                                                  !.user_id = req[r].user_id,
                                                  !.i = req[r].i]]
    /\ UNCHANGED <<profiles, model, matches_tbl, latest>>

StoreIdle ==
    /\ profiles = <<>> /\ matches_tbl = <<>> /\ lock = NoReq
    /\ req = [r \in Reqs |-> IdleReq]
    /\ latest = <<>>

-----------------------------------------------------------------------------
(* utils/database.py and app.py: get_user_matches and GET /matches *)

\* the orders in which n rows can come back
RowOrders(n) ==
    {p \in [1..n -> 1..n] : \A i, j \in 1..n : p[i] = p[j] => i = j}

\* a mutant of OrderByScoreDesc: ORDER BY m.match_score ASC
OrderByScoreAsc(rows) ==
    {[i \in DOMAIN rows |-> rows[p[i]]] :
        p \in {q \in RowOrders(Len(rows)) :
                  \A i, j \in DOMAIN rows :
                      i < j => RLe(rows[q[i]].match_score, rows[q[j]].match_score)}}

\* line 232, ORDER BY m.match_score DESC: the orders SQLite may give the
\* rows in; rows of equal score come in an order SQL leaves open
OrderByScoreDesc(rows) ==
    {[i \in DOMAIN rows |-> rows[p[i]]] :
        p \in {q \in RowOrders(Len(rows)) :
                  \A i, j \in DOMAIN rows :
                      i < j => RLe(rows[q[j]].match_score, rows[q[i]].match_score)}}

\* lines 228-231: matches m JOIN users u ON m.matched_user_id = u.id
\* LEFT JOIN profiles p ON u.id = p.user_id WHERE m.user_id = ?
\* A match row whose matched_user_id is no user's id has no joined row.
JoinMatchedUsers(user_id) ==
    LET HasUser(row) == \E k \in DOMAIN profiles : profiles[k].id = row.matched_user_id
        mine == SelectSeq(UserRows(matches_tbl, user_id), HasUser)
        Matched(row) == profiles[CHOOSE k \in DOMAIN profiles :
                                    profiles[k].id = row.matched_user_id]
    IN  [i \in DOMAIN mine |->
            [user_id |-> mine[i].user_id,
             matched_user_id |-> mine[i].matched_user_id,
             match_score |-> mine[i].match_score,
             username |-> Matched(mine[i]).username,
             skills |-> Matched(mine[i]).skills,
             interests |-> Matched(mine[i]).interests,
             tech_stack |-> Matched(mine[i]).tech_stack,
             bio |-> Matched(mine[i]).bio]]

\* database.py lines 223-246: the lists get_user_matches(user_id) can return
get_user_matches(user_id) == OrderByScoreDesc(JoinMatchedUsers(user_id))

\* no GET /matches served yet
NoRead == [user_id |-> 0, rows |-> <<>>]

ReadIdle == user_matches = NoRead

\* app.py lines 192-201: GET /matches for the session user.  The read is
\* one SELECT on its own connection and sees the committed rows.
GetMatches(user_id) ==
    /\ \E rows \in get_user_matches(user_id) :
          user_matches' = [user_id |-> user_id, rows |-> rows]
    /\ UNCHANGED <<profiles, model, matches_tbl, lock, req, latest>>

\* SpecMatches follows requests that do not overlap: one slot
SerialReqs == {"r1"}

-----------------------------------------------------------------------------
(* The specifications *)

\* the scorer's inputs drawn, the ranker and the store unused
ScoreInit == InitScore /\ RankIdle /\ model = FALSE /\ StoreIdle /\ ReadIdle

SpecScore == ScoreInit /\ [][NextScore]_vars

\* the ranker's inputs drawn, the store unused
RankInit == InitRank /\ ScoreIdle /\ StoreIdle /\ ReadIdle

SpecRank == RankInit /\ [][NextRank]_vars

\* the application started: users registered, no match stored, no request
Init == InitStore /\ ScoreIdle /\ RankIdle /\ ReadIdle

Next ==
    \/ \E r \in Reqs, user_id \in SessionUsers, resp \in StoreResponses :
          BeginRequest(r, user_id, resp) /\ UNCHANGED <<scoreVars, rankVars, readVars>>
    \/ \E r \in Reqs : SaveDelete(r) /\ UNCHANGED <<scoreVars, rankVars, readVars>>
    \/ \E r \in Reqs : SaveBusy(r) /\ UNCHANGED <<scoreVars, rankVars, readVars>>
    \/ \E r \in Reqs : SaveInsert(r) /\ UNCHANGED <<scoreVars, rankVars, readVars>>
    \/ \E r \in Reqs : SaveCommit(r) /\ UNCHANGED <<scoreVars, rankVars, readVars>>
    \/ \E r \in Reqs : SaveFail(r) /\ UNCHANGED <<scoreVars, rankVars, readVars>>

Spec == Init /\ [][Next]_vars

\* the store under requests that do not overlap, with GET /matches
NextMatches ==
    \/ \E r \in SerialReqs, user_id \in SessionUsers, resp \in StoreResponses :
          BeginRequest(r, user_id, resp) /\ UNCHANGED <<scoreVars, rankVars, readVars>>
    \/ \E r \in SerialReqs : SaveDelete(r) /\ UNCHANGED <<scoreVars, rankVars, readVars>>
    \/ \E r \in SerialReqs : SaveInsert(r) /\ UNCHANGED <<scoreVars, rankVars, readVars>>
    \/ \E r \in SerialReqs : SaveCommit(r) /\ UNCHANGED <<scoreVars, rankVars, readVars>>
    \/ \E r \in SerialReqs : SaveFail(r) /\ UNCHANGED <<scoreVars, rankVars, readVars>>
    \/ \E user_id \in SessionUsers :
          GetMatches(user_id) /\ UNCHANGED <<scoreVars, rankVars>>

SpecMatches == Init /\ [][NextMatches]_vars

-----------------------------------------------------------------------------
(* Properties of the similarity scorer, under SpecScore *)

\* |A n B| / |A u B| of two collections, 0 when either is None or empty
Overlap(A, B) ==
    IF A \in {None, <<>>} \/ B \in {None, <<>>} THEN Zero
    ELSE Rat(Cardinality(ToSet(A) \cap ToSet(B)), Cardinality(ToSet(A) \cup ToSet(B)))

InUnitInterval(x) == RLe(Zero, x) /\ RLe(x, One)

\* C5: the composite score is the weighted sum of the skills, interests and
\* tech-stack overlaps, the three weights sum to 1, and the score lies in
\* [0,1] for every pair of profiles.
C5_CompositeWeightedSumInUnitInterval ==
    "score" \in called =>
        /\ RAdd(RAdd(SkillsWeight, InterestsWeight), TechWeight) = One
        /\ total_score =
              RAdd(RAdd(RMul(SkillsWeight, Overlap(user1.skills, user2.skills)),
                        RMul(InterestsWeight, Overlap(user1.interests, user2.interests))),
                   RMul(TechWeight, Overlap(user1.tech_stack, user2.tech_stack)))
        /\ InUnitInterval(total_score)

\* a composite score strictly between 0 and 1 made of three non-zero terms
C5_Witness ==
    /\ "score" \in called
    /\ RLt(Zero, total_score) /\ RLt(total_score, One)
    /\ Overlap(user1.skills, user2.skills) # Zero
    /\ Overlap(user1.interests, user2.interests) # Zero
    /\ Overlap(user1.tech_stack, user2.tech_stack) # Zero

\* C6: calculate_jaccard_similarity(A, B) is |A n B| / |A u B| of the
\* deduplicated inputs, is symmetric in A and B, is 1 when A and B are the
\* same non-empty collection and 0 when A or B is empty.
C6_JaccardSymmetricReflexiveZeroOnEmpty ==
    "jaccard" \in called =>
        LET A == user1.skills
            B == user2.skills
        IN  /\ sim = calculate_jaccard_similarity(B, A)
            /\ (A = B /\ Truthy(A)) => sim = One
            /\ (A \in {None, <<>>} \/ B \in {None, <<>>}) => sim = Zero
            /\ (Truthy(A) /\ Truthy(B)) =>
                  sim[1] * Cardinality(ToSet(A) \cup ToSet(B))
                     = sim[2] * Cardinality(ToSet(A) \cap ToSet(B))

\* a similarity strictly between 0 and 1 of two different lists, one of
\* which repeats an element
C6_Witness ==
    /\ "jaccard" \in called
    /\ RLt(Zero, sim) /\ RLt(sim, One)
    /\ Len(user1.skills) > Cardinality(ToSet(user1.skills))

-----------------------------------------------------------------------------
(* Properties of the match ranker, under SpecRank *)

FellBack == returned /\ ~UsesGemini(user_profile, all_users, top_n, model, response)

\* the expected fallback ranking of the pool
ExpectedFallback == FallbackRanking(user_profile, all_users, top_n)

\* position in the pool of the candidate with this id
PoolIndex(uid) == CHOOSE i \in DOMAIN all_users : all_users[i].id = uid

\* C1: a response with an index outside 0..|pool|-1 is discarded as a whole:
\* the result is the fallback ranking and carries nothing of the response.
C1_OutOfRangeIndexDiscardsResponse ==
    (/\ returned /\ model /\ response.kind = "rankings"
     /\ \E i \in DOMAIN response.rankings :
           LET idx == response.rankings[i].idx
           IN  idx < 0 \/ idx >= Len(all_users))
    => /\ result = ExpectedFallback
       /\ \A j \in DOMAIN result : result[j].match_reason = FallbackReason

\* C2: when the call raises, the text is not JSON, or a ranking entry is not
\* an [index, score, reason] triple, find_matches returns the fallback ranking.
C2_FailedResponseFallsBack ==
    (/\ returned /\ model
     /\ \/ response.kind \in {"raises", "nonjson", "notarray"}
        \/ \E i \in DOMAIN response.rankings : response.rankings[i].len # 3)
    => result = ExpectedFallback

\* C3: find_matches returns at most min(top_n, |pool|) results.
C3_AtMostMinTopNPool ==
    returned => Len(result) <= Min(top_n, Len(all_users))

\* C4: every returned score lies in [0,1].
C4_ScoresInUnitInterval ==
    returned => \A i \in DOMAIN result : InUnitInterval(result[i].score)

\* C7: the fallback result is ordered by non-increasing score, and
\* candidates of equal score keep their pool order.
C7_FallbackSortedStable ==
    FellBack =>
        \A i, j \in DOMAIN result :
            i < j => /\ RLe(result[j].score, result[i].score)
                     /\ result[i].score = result[j].score
                           => PoolIndex(result[i].user_id) < PoolIndex(result[j].user_id)

\* a fallback result with two candidates of equal score after a candidate of
\* higher score that came later in the pool
C7_Witness ==
    /\ FellBack
    /\ Len(result) >= 3
    /\ RLt(result[2].score, result[1].score)
    /\ result[2].score = result[3].score
    /\ PoolIndex(result[1].user_id) > PoolIndex(result[2].user_id)

\* C8: the fallback result has exactly min(top_n, |pool|) entries, each a
\* distinct pool member carrying its composite score, and no omitted
\* candidate scores strictly higher than a returned one.
C8_FallbackTopN ==
    FellBack =>
        /\ Len(result) = Min(top_n, Len(all_users))
        /\ \A i \in DOMAIN result :
              /\ \E k \in DOMAIN all_users :
                    /\ all_users[k].id = result[i].user_id
                    /\ result[i].score =
                          calculate_match_score_fallback(user_profile, all_users[k])
              /\ \A j \in DOMAIN result : i # j => result[i].user_id # result[j].user_id
        /\ \A k \in DOMAIN all_users :
              (\A i \in DOMAIN result : result[i].user_id # all_users[k].id)
              => \A i \in DOMAIN result :
                    RLe(calculate_match_score_fallback(user_profile, all_users[k]),
                        result[i].score)

\* a pool larger than top_n, cut to top_n, the best candidate not first in
\* the pool and an omitted candidate of strictly lower score
C8_Witness ==
    /\ FellBack
    /\ top_n > 0 /\ Len(all_users) > top_n /\ Len(result) = top_n
    /\ PoolIndex(result[1].user_id) > 1
    /\ \E k \in DOMAIN all_users :
          /\ \A i \in DOMAIN result : result[i].user_id # all_users[k].id
          /\ RLt(calculate_match_score_fallback(user_profile, all_users[k]),
                 result[Len(result)].score)

-----------------------------------------------------------------------------
(* Properties of the match store, under Spec *)

\* the rows save_matches stores for a result
RowsOf(user_id, matches) == [k \in DOMAIN matches |-> MatchRow(user_id, matches[k])]

\* C9: the rows stored for a user are exactly the results of the most recent
\* successful request of that user: no row of an earlier request is left and
\* nothing is accumulated.
C9_StoredMatchesAreLatestResult ==
    \A u \in Users : UserRows(matches_tbl, u) = RowsOf(u, latest[u])

\* two requests of the same user have succeeded with different results, and
\* rows of another user are stored too
C9_Witness ==
    /\ req["r1"].pc = "done" /\ req["r2"].pc = "done"
    /\ req["r1"].user_id = req["r2"].user_id
    /\ req["r1"].matches # req["r2"].matches
    /\ UserRows(matches_tbl, req["r1"].user_id) # <<>>
    /\ \E v \in Users : v # req["r1"].user_id /\ UserRows(matches_tbl, v) # <<>>

\* C10: a save_matches that fails, before the DELETE, after it or between
\* two INSERTs, ends the request in an error and leaves the stored table as
\* it was when the call's transaction began; while the transaction is open
\* the stored table shows neither its DELETE nor its INSERTs.
C10_FailedSaveLeavesStoreUnchanged ==
    /\ [](\A r \in Reqs : req[r].pc = "insert" => matches_tbl = req[r].before)
    /\ [][\A r \in Reqs :
             (req[r].pc \in {"save", "insert"} /\ req'[r].pc \notin {"save", "insert", "done"})
             => /\ req'[r].pc = "error"
                /\ matches_tbl' = matches_tbl
                /\ req[r].pc = "insert" => matches_tbl' = req[r].before]_vars

\* a request failed between two INSERTs and the rows its user had before are
\* still stored
C10_Witness ==
    \E r \in Reqs :
        /\ req[r].pc = "error" /\ req[r].i > 1
        /\ UserRows(matches_tbl, req[r].user_id) # <<>>
        /\ UserRows(matches_tbl, req[r].user_id) = RowsOf(req[r].user_id, latest[req[r].user_id])

\* C11: two requests of the same user that ran concurrently, each with its
\* own connection: once both have finished the rows stored for the user are
\* the complete result of one of them, and at no time do the stored rows of
\* the user hold a row of each that the other does not have.
C11_ConcurrentRequestsNeverMix ==
    \A u \in Users :
        (/\ req["r1"].user_id = u /\ req["r2"].user_id = u
         /\ req["r1"].pc \in {"save", "insert", "done"}
         /\ req["r2"].pc \in {"save", "insert", "done"})
        => LET stored == UserRows(matches_tbl, u)
               R1 == RowsOf(u, req["r1"].matches)
               R2 == RowsOf(u, req["r2"].matches)
           IN  /\ (req["r1"].pc = "done" /\ req["r2"].pc = "done")
                     => stored \in {R1, R2}
               /\ ~ \E a, b \in DOMAIN stored :
                       /\ stored[a] \in ToSet(R1) \ ToSet(R2)
                       /\ stored[b] \in ToSet(R2) \ ToSet(R1)

\* both requests of one user have finished with different results, having
\* been in flight at the same time
C11_Witness ==
    /\ req["r1"].pc = "done" /\ req["r2"].pc = "done"
    /\ req["r1"].user_id = req["r2"].user_id
    /\ req["r1"].overlapped /\ req["r2"].overlapped
    /\ req["r1"].matches # req["r2"].matches
    /\ UserRows(matches_tbl, req["r1"].user_id) # <<>>

\* C12: on either path and for any response, every entry of the result of
\* find_matches carries the id of a member of the pool passed in, and the
\* username, skills, interests, tech_stack and bio of that member.
C12_ResultHoldsOnlyPoolMembers ==
    returned =>
        \A i \in DOMAIN result :
            \E k \in DOMAIN all_users :
                /\ result[i].user_id = all_users[k].id
                /\ result[i].username = all_users[k].username
                /\ result[i].skills = all_users[k].skills
                /\ result[i].interests = all_users[k].interests
                /\ result[i].tech_stack = all_users[k].tech_stack
                /\ result[i].bio = all_users[k].bio

\* the model's answer was used, one of the entries read from it names an
\* index outside the pool, and the result is not empty
C12_Witness ==
    /\ returned /\ result # <<>>
    /\ UsesGemini(user_profile, all_users, top_n, model, response)
    /\ \E i \in DOMAIN response.rankings :
           /\ i <= top_n
           /\ \/ response.rankings[i].idx < 0
              \/ response.rankings[i].idx >= Len(all_users)

\* a collection field that is null
IsNull(x) == x = None

HasNullField(u) ==
    IsNull(u.skills) \/ IsNull(u.interests) \/ IsNull(u.tech_stack)

\* the record with its null collection fields replaced by empty collections
NullsAsEmpty(u) ==
    [u EXCEPT !.skills = IF IsNull(@) THEN <<>> ELSE @,
              !.interests = IF IsNull(@) THEN <<>> ELSE @,
              !.tech_stack = IF IsNull(@) THEN <<>> ELSE @]

\* the candidates and scores of a ranking, in order
IdsAndScores(ranking) ==
    [i \in DOMAIN ranking |-> <<ranking[i].user_id, ranking[i].score>>]

\* C13: a null skills, interests or tech_stack field, on the subject or on a
\* candidate, counts as an empty collection: its overlap term is 0, the
\* fallback ranking is the one the same records with empty collections get,
\* and find_matches still returns a ranking of the pool.
C13_NullFieldsAreEmptyCollections ==
    (/\ returned
     /\ HasNullField(user_profile) \/ \E k \in DOMAIN all_users : HasNullField(all_users[k]))
    => /\ \A k \in DOMAIN all_users :
             LET c == all_users[k]
             IN  /\ (IsNull(user_profile.skills) \/ IsNull(c.skills))
                       => skills_score(user_profile, c) = Zero
                 /\ (IsNull(user_profile.interests) \/ IsNull(c.interests))
                       => interests_score(user_profile, c) = Zero
                 /\ (IsNull(user_profile.tech_stack) \/ IsNull(c.tech_stack))
                       => tech_score(user_profile, c) = Zero
       /\ FellBack =>
             IdsAndScores(result) =
                 IdsAndScores(FallbackRanking(NullsAsEmpty(user_profile),
                                              [k \in DOMAIN all_users |->
                                                  NullsAsEmpty(all_users[k])],
                                              top_n))
       /\ (all_users # <<>> /\ top_n >= 1) => result # <<>>

\* the subject and a candidate both lack a profile row, another candidate
\* has every field, and a ranking of both candidates came back
C13_Witness ==
    /\ returned /\ Len(result) >= 2
    /\ IsNull(user_profile.skills) /\ IsNull(user_profile.tech_stack)
    /\ \E k \in DOMAIN all_users : IsNull(all_users[k].tech_stack)
    /\ \E k \in DOMAIN all_users : ~HasNullField(all_users[k])

\* C15: a request of user u changes only u's stored matches: the stored rows
\* of a user change only in the commit of a save_matches of that user, and
\* no step changes a user or profile record.
C15_SaveChangesOnlyOwnRows ==
    [][/\ profiles' = profiles
       /\ \A v \in Users :
             UserRows(matches_tbl', v) # UserRows(matches_tbl, v)
             => \E r \in Reqs : /\ req[r].pc = "insert" /\ req'[r].pc = "done"
                                /\ req[r].user_id = v]_vars

\* a request has just been saved for one user while rows of another user,
\* saved before, are stored
C15_Witness ==
    \E r \in Reqs, v \in Users :
        /\ req[r].pc = "done" /\ req[r].user_id # v
        /\ UserRows(matches_tbl, req[r].user_id) = RowsOf(req[r].user_id, req[r].matches)
        /\ req[r].matches # <<>>
        /\ UserRows(matches_tbl, v) # <<>>
        /\ matches_tbl[Len(matches_tbl)].user_id = req[r].user_id

\* C16: no stored match row pairs a user with themselves.
C16_NoSelfMatchStored ==
    \A k \in DOMAIN matches_tbl :
        matches_tbl[k].matched_user_id # matches_tbl[k].user_id

\* the rows stored for a session user name every other user, from the
\* fallback ranking of the whole pool
C16_Witness ==
    \E u \in SessionUsers :
        /\ latest[u] # <<>>
        /\ \A k \in DOMAIN latest[u] : latest[u][k].match_reason = FallbackReason
        /\ {UserRows(matches_tbl, u)[k].matched_user_id :
               k \in DOMAIN UserRows(matches_tbl, u)} = Users \ {u}

-----------------------------------------------------------------------------
(* Properties of get_user_matches, under SpecMatches *)

\* the stored columns of the rows get_user_matches returned
StoredColumns(rows) ==
    [i \in DOMAIN rows |-> [user_id |-> rows[i].user_id,
                            matched_user_id |-> rows[i].matched_user_id,
                            match_score |-> rows[i].match_score]]

\* one list is a reordering of the other
IsReordering(a, b) ==
    /\ Len(a) = Len(b)
    /\ \E p \in RowOrders(Len(a)) : \A i \in DOMAIN a : a[i] = b[p[i]]

\* C14: whatever the store holds, get_user_matches(u) returns exactly the
\* rows stored for u at that time, each once, in order of non-increasing
\* match score.
C14_GetMatchesReturnsStoredRowsSorted ==
    [][user_matches' # user_matches =>
          LET got == user_matches'.rows
          IN  /\ IsReordering(StoredColumns(got),
                              UserRows(matches_tbl, user_matches'.user_id))
              /\ \A i, j \in DOMAIN got :
                    i < j => RLe(got[j].match_score, got[i].match_score)]_vars

\* a read returned the two rows stored for the user in another order than
\* they were inserted in, the higher score first
C14_Witness ==
    /\ Len(user_matches.rows) = 2
    /\ RLt(user_matches.rows[2].match_score, user_matches.rows[1].match_score)
    /\ StoredColumns(user_matches.rows) # UserRows(matches_tbl, user_matches.user_id)
    /\ IsReordering(StoredColumns(user_matches.rows),
                    UserRows(matches_tbl, user_matches.user_id))

====
